---- MODULE Spec2Model ----
(***************************************************************************)
(* Secrets Manager rotation of Cloudflare credentials.                     *)
(*                                                                         *)
(* The model follows src/lambda/rotate.py (the rotation handler and its    *)
(* four steps) and src/lambda/cf.py (the Cloudflare calls).  Every call a  *)
(* step makes to Secrets Manager or to Cloudflare is one transition, so a  *)
(* handler can fail or be killed between any two calls and two handlers    *)
(* can interleave call by call.                                            *)
(***************************************************************************)
EXTENDS Integers, Sequences, FiniteSets, TLC

\* Bounds of the model.
MaxVersions == 3
MaxTokens == 3
MaxValues == 2
MaxKeys == 2

VersionIds == 1..MaxVersions
TokenIds == 1..MaxTokens
InitVersion == 1
Slots == {1, 2}

AWSCURRENT == "AWSCURRENT"
AWSPENDING == "AWSPENDING"
CFINIT == "CFINIT"

Steps == {"createSecret", "setSecret", "testSecret", "finishSecret", "otherStep"}

VARIABLES
    rotationEnabled,  \* metadata["RotationEnabled"] of the secret
    stages,           \* metadata["VersionIdsToStages"]: version -> staging labels
    content,          \* the SecretString of each version, parsed (NoSecret: no value)
    cfTokens,         \* Cloudflare's API tokens: id -> state, times rolled, expires_on
    nextValue,        \* the next service key or tunnel key Cloudflare hands out
    env,              \* os.environ: the names that are set and non-empty
    inv,              \* the handler invocations, one per slot
    testFailed,       \* history: the last version whose testSecret found the token invalid (0: none)
    healed,           \* history: token ids replaced because they no longer existed
    run               \* history: progress of a run of complete successful rotations

vars == <<rotationEnabled, stages, content, cfTokens, nextValue, env, inv,
          testFailed, healed, run>>

-----------------------------------------------------------------------------
\* Secret values and python dicts.

NoSecret == [Missing |-> TRUE]

Has(d, k) == k \in DOMAIN d
Set(d, k, v) == (k :> v) @@ d

\* dict["Attributes"][k] = v
SetAttr(d, k, v) == Set(d, "Attributes", Set(d["Attributes"], k, v))

ApiTokenInit(days) ==
    [Type |-> "apiToken",
     Attributes |-> [Name |-> "ci", Policies |-> "p1", ValidDays |-> days]]

ApiTokenCurrent(days) ==
    SetAttr(SetAttr(ApiTokenInit(days), "TokenId", 1), "TokenValue", <<1, 1>>)

ServiceKeyInit ==
    [Type |-> "tunnelServiceKey", Attributes |-> [KeyValue |-> 0]]

ArgoInit(withArn) ==
    LET base == [Hostname |-> "foo.example.com", ValidityDays |-> 30,
                 ZoneId |-> "zone", TokenValue |-> 0]
    IN  [Type |-> "argoTunnelToken",
         Attributes |-> IF withArn THEN Set(base, "TunnelServiceKeyArn", "arn:key")
                        ELSE base]

\* A record whose Type is none of the three.
OtherTypeInit == [Type |-> "otherType", Attributes |-> [Name |-> "ci"]]

\* The KeyValue of the AWSCURRENT version of the secret TunnelServiceKeyArn names.
TunnelServiceKeySecret == [Type |-> "tunnelServiceKey", Attributes |-> [KeyValue |-> "key-from-arn"]]

-----------------------------------------------------------------------------
\* Secrets Manager, as rotate.py uses it.

VersionsWith(label) == {v \in VersionIds : label \in stages[v]}

\* describe_secret: VersionIdsToStages lists the versions that carry a label.
KnownVersions == {v \in VersionIds : stages[v] # {}}

\* get_secret_value(SecretId, VersionStage=stage): the value, or NoSecret for
\* ResourceNotFoundException.
StageValue(stage) ==
    IF \E v \in VersionsWith(stage) : content[v] # NoSecret
    THEN content[CHOOSE v \in VersionsWith(stage) : content[v] # NoSecret]
    ELSE NoSecret

\* Cloudflare.
TokenRec(state, value, expires) == [state |-> state, value |-> value, expires |-> expires]
NoToken == TokenRec("none", 0, FALSE)
Exists(id) == cfTokens[id].state = "live"
FreshIds == {i \in TokenIds : cfTokens[i].state = "none"}
FreshId == CHOOSE i \in FreshIds : \A j \in FreshIds : i <= j
CanIssueKey == nextValue <= MaxKeys
\* The secret value of token id after its value was set (issued, rolled) n times.
Value(id, n) == <<id, n>>
LiveValue(id) == Value(id, cfTokens[id].value)
CanRoll(id) == cfTokens[id].value < MaxValues
\* /user/tokens/verify: the value is some live token's current value.
TokenValueValid(value) == \E i \in TokenIds : Exists(i) /\ LiveValue(i) = value

-----------------------------------------------------------------------------
\* Invocations.

\* status: idle | running | ok | error.  pc: the call the handler makes next.
\* calls: the calls of this invocation that issued a credential or wrote to the
\* store.  path: the branch rotate_or_create_api_token took.  failure: what was
\* raised.  valid: the answer of is_token_valid.  replay: the invocation before
\* this one ran the same step for the same version and returned without an error.
\* verified: the token ids cf.token_exists answered True for in this invocation.
Idle == [status |-> "idle", step |-> "none", token |-> 0, pc |-> "none",
         current_dict |-> NoSecret, payload |-> NoSecret, current_version |-> 0,
         tunnel_service_key |-> "none",
         calls |-> <<>>, path |-> "none", failure |-> "none", valid |-> TRUE,
         replay |-> FALSE, verified |-> {}]

Call(op, id, value, arg) == [op |-> op, id |-> id, value |-> value, arg |-> arg]

Running(s) == inv[s].status = "running"
At(s, pc) == Running(s) /\ inv[s].pc = pc

\* The invocation returns or raises: its locals are gone.  Of an invocation that
\* ended in lambda_handler, before any step ran, only the step and the outcome are
\* remembered.
Ended(r, status, failure) ==
    IF r.pc = "lambda_handler"
    THEN [Idle EXCEPT !.status = status, !.failure = failure, !.pc = "done",
                      !.step = r.step]
    ELSE [r EXCEPT !.status = status, !.failure = failure, !.pc = "done",
                   !.current_dict = NoSecret, !.payload = NoSecret,
                   !.current_version = 0, !.tunnel_service_key = "none",
                   !.verified = {}]

\* assert_env: whether it passes, and os.environ after it.
KeyAndEmail(e) == {"CF_API_KEY", "CF_API_EMAIL"} \subseteq e

SkipsAssert(secret_type, e) == TRUE

assert_env(secret_type, e) ==
    CASE secret_type = "apiToken" -> KeyAndEmail(e) \/ "CF_API_TOKEN" \in e
      [] secret_type = "tunnelServiceKey" -> KeyAndEmail(e)
      [] secret_type = "argoTunnelToken" -> "CF_API_CERTKEY" \in e
      [] OTHER -> FALSE

EnvAfterAssert(secret_type, e) ==
    IF secret_type = "apiToken" /\ ~KeyAndEmail(e) /\ "CF_API_TOKEN" \in e
    THEN e \cup {"CF_API_KEY"}
    ELSE e

CleanRun0 == [clean |-> FALSE, expect |-> "none", rotations |-> 0]

\* os.environ as the lambda is deployed.
NoEnv == {}
TokenEnv == {"CF_API_TOKEN"}
AccountEnv == {"CF_API_KEY", "CF_API_EMAIL", "CF_API_CERTKEY"}
TunnelEnv == {"CF_API_CERTKEY", "CF_TUNNEL_SERVICE_KEY"}

\* The secret as it is configured before its first rotation here: either a CFINIT
\* version (never rotated), or an AWSCURRENT version holding token 1.
InitialSecrets ==
    { <<CFINIT, ApiTokenInit(30), FALSE, {NoEnv, TokenEnv, AccountEnv}>>,
      <<CFINIT, ApiTokenInit(0), FALSE, {TokenEnv}>>,
      <<AWSCURRENT, ApiTokenCurrent(30), TRUE, {TokenEnv}>>,
      <<AWSCURRENT, ApiTokenCurrent(0), FALSE, {TokenEnv}>>,
      <<CFINIT, ServiceKeyInit, FALSE, {TokenEnv, AccountEnv}>>,
      <<AWSCURRENT, ArgoInit(TRUE), FALSE, {TokenEnv, AccountEnv}>>,
      <<CFINIT, ArgoInit(FALSE), FALSE, {AccountEnv, TunnelEnv}>>,
      <<AWSCURRENT, OtherTypeInit, FALSE, {AccountEnv}>> }

Init ==
    /\ rotationEnabled \in BOOLEAN
    /\ \E s \in InitialSecrets :
          /\ env \in s[4]
          /\ stages = [v \in VersionIds |-> IF v = InitVersion THEN {s[1]} ELSE {}]
          /\ content = [v \in VersionIds |-> IF v = InitVersion THEN s[2] ELSE NoSecret]
          /\ LET hasToken == Has(s[2]["Attributes"], "TokenId")
             IN  /\ cfTokens = [i \in TokenIds |->
                                  IF hasToken /\ i = 1 THEN TokenRec("live", 1, s[3])
                                  ELSE NoToken]
                 /\ nextValue = 1
                 /\ run = IF hasToken /\ s[3] /\ rotationEnabled /\ assert_env("apiToken", env)
                          THEN [clean |-> TRUE, expect |-> "start", rotations |-> 0]
                          ELSE CleanRun0
    /\ inv = [s \in Slots |-> Idle]
    /\ testFailed = 0
    /\ healed = {}

-----------------------------------------------------------------------------
\* History of a run of complete successful rotations (create, test, finish on a
\* fresh version, nothing failing, nothing deleted).  Any other event ends it.

RunOnInvoke(step, token) ==
    IF run.clean /\ token \in VersionsWith(AWSPENDING)
       /\ (step = run.expect \/ (step = "setSecret" /\ run.expect = "testSecret"))
    THEN run ELSE CleanRun0

RunOnEnd(rn, step, status) ==
    IF ~rn.clean \/ status # "ok" THEN CleanRun0
    ELSE CASE step = "createSecret" -> [rn EXCEPT !.expect = "testSecret"]
           [] step = "testSecret" -> [rn EXCEPT !.expect = "finishSecret"]
           [] step = "finishSecret" ->
                [rn EXCEPT !.expect = "start", !.rotations = rn.rotations + 1]
           [] OTHER -> rn

\* Slot s returns or raises.
End(s, status, failure) ==
    /\ inv' = [inv EXCEPT ![s] = Ended(inv[s], status, failure)]
    /\ run' = RunOnEnd(run, inv[s].step, status)

EndWith(s, r, status, failure) ==
    /\ inv' = [inv EXCEPT ![s] = Ended(r, status, failure)]
    /\ run' = RunOnEnd(run, inv[s].step, status)

Goto(s, pc) == inv' = [inv EXCEPT ![s].pc = pc]

-----------------------------------------------------------------------------
\* The callers.

\* Secrets Manager starts a rotation: it attaches AWSPENDING to a version id that
\* was never used.  A staging label is on one version at a time.
StartRotation ==
    /\ \A s \in Slots : ~Running(s)
    /\ \E v \in VersionIds :
          /\ stages[v] = {} /\ content[v] = NoSecret
          /\ \A w \in VersionIds : w < v => (stages[w] # {} \/ content[w] # NoSecret)
          /\ stages' = [w \in VersionIds |->
                          IF w = v THEN {AWSPENDING} ELSE stages[w] \ {AWSPENDING}]
    /\ run' = IF run.clean /\ run.expect = "start"
              THEN [run EXCEPT !.expect = "createSecret"] ELSE CleanRun0
    /\ UNCHANGED <<rotationEnabled, content, cfTokens, nextValue, env, inv,
                   testFailed, healed>>

\* A token is deleted at Cloudflare, outside this program.
DeleteToken ==
    /\ \A s \in Slots : ~Running(s)
    /\ \E i \in TokenIds :
          /\ Exists(i)
          /\ cfTokens' = [cfTokens EXCEPT ![i].state = "deleted"]
    /\ run' = CleanRun0
    /\ UNCHANGED <<rotationEnabled, stages, content, nextValue, env, inv,
                   testFailed, healed>>

\* The versions an event may name: those of the secret, and one that is not.
EventVersions ==
    KnownVersions \cup {v \in VersionIds : stages[v] = {} /\ \A w \in VersionIds :
                                               stages[w] = {} => v <= w}

Started(s, step, token) ==
    [Idle EXCEPT !.status = "running", !.step = step, !.token = token,
                 !.pc = "lambda_handler",
                 !.replay = (inv[s].step = step /\ inv[s].token = token
                             /\ inv[s].status = "ok")]

\* A call to Secrets Manager or Cloudflare raises, or the host ends the invocation
\* at this point: the exception propagates, nothing is retried.
CallFails(s) ==
    /\ Running(s)
    /\ End(s, "error", "CallFailed")
    /\ UNCHANGED <<rotationEnabled, stages, content, cfTokens, nextValue, env,
                   testFailed, healed>>

-----------------------------------------------------------------------------
\* lambda_handler: describe_secret, the staging checks, the dispatch on Step.

WriteFirst(step) ==
    CASE step = "createSecret" -> "put_secret_value"
      [] step = "testSecret" -> "test_secret"
      [] step = "finishSecret" -> "finish_secret"
      [] OTHER -> "none"

FinishAsTest(step) ==
    CASE step = "createSecret" -> "create_secret"
      [] step = "testSecret" -> "test_secret"
      [] step = "finishSecret" -> "test_secret"
      [] OTHER -> "none"

FirstCall(step) ==
    CASE step = "createSecret" -> "create_secret"
      [] step = "testSecret" -> "test_secret"
      [] step = "finishSecret" -> "finish_secret"
      [] OTHER -> "none"

\* The checks on the metadata describe_secret returned: what is raised, "current"
\* for the return of a version that is AWSCURRENT already, "staged" to go on.
StagedAnyLabel(token) ==
    IF token \notin KnownVersions THEN "NoStage"
    ELSE IF AWSCURRENT \in stages[token] THEN "current"
    ELSE "staged"

StagedPendingFirst(token) ==
    IF ~rotationEnabled THEN "RotationDisabled"
    ELSE IF token \notin KnownVersions THEN "NoStage"
    ELSE IF AWSPENDING \notin stages[token] THEN "NotPending"
    ELSE IF AWSCURRENT \in stages[token] THEN "current"
    ELSE "staged"

Staged(token) ==
    IF ~rotationEnabled THEN "RotationDisabled"
    ELSE IF token \notin KnownVersions THEN "NoStage"
    ELSE IF AWSCURRENT \in stages[token] THEN "current"
    ELSE IF AWSPENDING \notin stages[token] THEN "NotPending"
    ELSE "staged"

\* The event names a step and a version; slot s handles it.  describe_secret may
\* raise like any other call.
lambda_handler(s, step, token) ==
    LET r == Started(s, step, token)
        staged == Staged(token)
        EndHere(status, failure) ==
            /\ inv' = [inv EXCEPT ![s] = Ended(r, status, failure)]
            /\ run' = RunOnEnd(RunOnInvoke(step, token), step, status)
    IN  /\ \/ EndHere("error", "CallFailed")
           \/ IF staged = "current" THEN EndHere("ok", "none")
              ELSE IF staged # "staged" THEN EndHere("error", staged)
              ELSE IF step = "setSecret" THEN EndHere("ok", "none")
              ELSE IF step = "otherStep" THEN EndHere("error", "InvalidStep")
              ELSE /\ inv' = [inv EXCEPT ![s] = [r EXCEPT !.pc = FirstCall(step)]]
                   /\ run' = RunOnInvoke(step, token)
        /\ UNCHANGED <<rotationEnabled, stages, content, cfTokens, nextValue, env,
                       testFailed, healed>>

\* One rotation event at a time.
Invoke ==
    /\ \A s \in Slots : ~Running(s)
    /\ inv[2] = Idle
    /\ \E step \in Steps, token \in EventVersions : lambda_handler(1, step, token)

\* After two concurrent invocations the next event is again handled alone.
InvokeAfterDuplicate ==
    /\ \A s \in Slots : ~Running(s)
    /\ inv[2] # Idle
    /\ inv' = [inv EXCEPT ![2] = Idle]
    /\ UNCHANGED <<rotationEnabled, stages, content, cfTokens, nextValue, env,
                   testFailed, healed, run>>

\* The same event delivered a second time while the first is still being handled.
InvokeDuplicate ==
    /\ Running(1) /\ inv[2].status = "idle"
    /\ lambda_handler(2, inv[1].step, inv[1].token)

-----------------------------------------------------------------------------
\* create_secret.

Others == <<rotationEnabled, testFailed>>

\* get_secret_dict(service_client, arn, "AWSCURRENT")
create_secret(s) ==
    /\ At(s, "create_secret")
    /\ LET current_dict == StageValue(AWSCURRENT)
       IN  IF current_dict # NoSecret
           THEN inv' = [inv EXCEPT ![s].current_dict = current_dict,
                                   ![s].pc = "get_pending"]
           ELSE Goto(s, "get_init")
    /\ UNCHANGED <<Others, stages, content, cfTokens, nextValue, env, healed, run>>

\* AWSCURRENT does not exist: get_secret_dict(service_client, arn, "CFINIT")
create_secret_init(s) ==
    /\ At(s, "get_init")
    /\ LET current_dict == StageValue(CFINIT)
       IN  IF current_dict # NoSecret
           THEN /\ inv' = [inv EXCEPT ![s].current_dict = current_dict,
                                      ![s].pc = "get_pending"]
                /\ UNCHANGED run
           ELSE End(s, "error", "ResourceNotFound")
    /\ UNCHANGED <<Others, stages, content, cfTokens, nextValue, env, healed>>

\* get_secret_value(SecretId=arn, VersionId=token, VersionStage="AWSPENDING") returns.
NeverRetrieved(token) == FALSE

PendingRetrieved(token) == content[token] # NoSecret /\ AWSPENDING \in stages[token]

\* The pending value is not there yet: assert_env, then the branch for the Type.
create_secret_pending(s) ==
    /\ At(s, "get_pending")
    /\ LET current_dict == inv[s].current_dict
           secret_type == current_dict["Type"]
           attrs == current_dict["Attributes"]
       IN  IF PendingRetrieved(inv[s].token)
           THEN End(s, "ok", "none") /\ UNCHANGED env
           ELSE IF ~assert_env(secret_type, env)
           THEN End(s, "error", "AssertEnv") /\ UNCHANGED env
           ELSE /\ env' = EnvAfterAssert(secret_type, env)
                /\ CASE secret_type = "apiToken" ->
                          \* rotate_or_create_api_token
                          /\ UNCHANGED run
                          /\ IF ~Has(attrs, "TokenId")
                             THEN inv' = [inv EXCEPT ![s].pc = "create_api_token",
                                                     ![s].path = "bootstrap"]
                             ELSE Goto(s, "token_exists")
                     [] secret_type = "tunnelServiceKey" ->
                          Goto(s, "create_origintunnel_service_key") /\ UNCHANGED run
                     [] secret_type = "argoTunnelToken" ->
                          IF Has(attrs, "TunnelServiceKeyArn")
                          THEN Goto(s, "tunnel_service_key") /\ UNCHANGED run
                          ELSE IF "CF_TUNNEL_SERVICE_KEY" \in env
                          THEN /\ inv' = [inv EXCEPT
                                            ![s].tunnel_service_key = "key-from-env",
                                            ![s].pc = "create_argo_tunnel_token"]
                               /\ UNCHANGED run
                          ELSE End(s, "error", "KeyError")
                     [] OTHER -> End(s, "error", "ValueError")
    /\ UNCHANGED <<Others, stages, content, cfTokens, nextValue, healed>>

\* rotate_or_create_api_token: cf.token_exists(cf_token_id)
rotate_or_create_api_token(s) ==
    /\ At(s, "token_exists")
    /\ LET attrs == inv[s].current_dict["Attributes"]
           cf_token_id == attrs["TokenId"]
       IN  IF ~Exists(cf_token_id)
           THEN /\ inv' = [inv EXCEPT ![s].pc = "create_api_token",
                                      ![s].path = "selfheal"]
                /\ healed' = healed \cup {cf_token_id}
           ELSE /\ inv' = [inv EXCEPT
                             ![s].pc = IF Has(attrs, "OtherTokenId")
                                       THEN "token_exists_other" ELSE "clone_api_token",
                             ![s].verified = @ \cup {cf_token_id}]
                /\ UNCHANGED healed
    /\ UNCHANGED <<Others, stages, content, cfTokens, nextValue, env, run>>

\* rotate_between_api_tokens: "OtherTokenId" in ... and cf.token_exists(OtherTokenId)
rotate_between_api_tokens(s) ==
    /\ At(s, "token_exists_other")
    /\ LET attrs == inv[s].current_dict["Attributes"]
       IN  IF Exists(attrs["OtherTokenId"])
           THEN inv' = [inv EXCEPT ![s].pc = "renew_api_token",
                                   ![s].verified = @ \cup {attrs["OtherTokenId"]}]
           ELSE Goto(s, "clone_api_token")
    /\ UNCHANGED <<Others, stages, content, cfTokens, nextValue, env, healed, run>>

\* rotate.create_api_token: the new value of the secret.
MisCreatedValue(secret_value, id, value) ==
    SetAttr(SetAttr(SetAttr(secret_value, "TokenValue", value), "TokenId", id),
            "OtherTokenId", id)

HealKeepingOldValue(secret_value, id, value) ==
    IF Has(secret_value["Attributes"], "TokenId")
    THEN SetAttr(SetAttr(SetAttr(secret_value, "TokenValue", value), "TokenId", id),
                 "OtherTokenId", secret_value["Attributes"]["TokenId"])
    ELSE SetAttr(SetAttr(secret_value, "TokenValue", value), "TokenId", id)

CreatedValue(secret_value, id, value) ==
    SetAttr(SetAttr(secret_value, "TokenValue", value), "TokenId", id)

\* cf.create_api_token(name, policies, valid_days): a new token, expiring only
\* when valid_days > 0.
create_api_token(s) ==
    /\ At(s, "create_api_token")
    /\ FreshIds # {}
    /\ LET attrs == inv[s].current_dict["Attributes"]
           id == FreshId
       IN  /\ cfTokens' = [cfTokens EXCEPT
                             ![id] = TokenRec("live", 1, attrs["ValidDays"] > 0)]
           /\ inv' = [inv EXCEPT
                        ![s].payload = CreatedValue(inv[s].current_dict, id, Value(id, 1)),
                        ![s].calls = Append(@, Call("create_api_token", id, Value(id, 1),
                                     <<attrs["Name"], attrs["Policies"], attrs["ValidDays"]>>)),
                        ![s].pc = "put_secret_value"]
    /\ UNCHANGED <<Others, stages, content, nextValue, env, healed, run>>

\* rotate_between_api_tokens: the new value of the secret, on both branches.
UnswappedValue(secret_value, id, value) ==
    SetAttr(SetAttr(secret_value, "TokenValue", value), "TokenId", id)

RotatedValue(secret_value, id, value) ==
    SetAttr(SetAttr(SetAttr(secret_value, "OtherTokenId",
                            secret_value["Attributes"]["TokenId"]),
                    "TokenValue", value),
            "TokenId", id)

\* cf.clone_api_token(cf_token_id): a new token with the validity of the old one.
clone_api_token(s) ==
    /\ At(s, "clone_api_token")
    /\ LET cf_token_id == inv[s].current_dict["Attributes"]["TokenId"]
           id == FreshId
       IN  IF ~Exists(cf_token_id)
           THEN /\ End(s, "error", "CloudFlareAPIError")
                /\ UNCHANGED cfTokens
           ELSE IF ~cfTokens[cf_token_id].expires
           THEN /\ End(s, "error", "UnboundLocalError")
                /\ UNCHANGED cfTokens
           ELSE /\ FreshIds # {}
                /\ cfTokens' = [cfTokens EXCEPT ![id] = TokenRec("live", 1, TRUE)]
                /\ inv' = [inv EXCEPT
                             ![s].payload = RotatedValue(inv[s].current_dict, id,
                                                         Value(id, 1)),
                             ![s].calls = Append(@, Call("clone_api_token", id,
                                                         Value(id, 1), <<cf_token_id>>)),
                             ![s].path = "clone",
                             ![s].pc = "put_secret_value"]
                /\ UNCHANGED run
    /\ UNCHANGED <<Others, stages, content, nextValue, env, healed>>

\* The token rotate_between_api_tokens renews.
RenewActive(secret_value) == secret_value["Attributes"]["TokenId"]

RenewTarget(secret_value) == secret_value["Attributes"]["OtherTokenId"]

\* cf.renew_api_token(cf_other_token_id): new validity, status active, value rolled.
renew_api_token(s) ==
    /\ At(s, "renew_api_token")
    /\ LET id == RenewTarget(inv[s].current_dict)
           cf_other_token_id == inv[s].current_dict["Attributes"]["OtherTokenId"]
       IN  IF ~Exists(id)
           THEN /\ End(s, "error", "CloudFlareAPIError")
                /\ UNCHANGED cfTokens
           ELSE IF ~cfTokens[id].expires
           THEN /\ End(s, "error", "UnboundLocalError")
                /\ UNCHANGED cfTokens
           ELSE /\ CanRoll(id)
                /\ cfTokens' = [cfTokens EXCEPT ![id].value = @ + 1]
                /\ inv' = [inv EXCEPT
                             ![s].payload = RotatedValue(inv[s].current_dict,
                                               cf_other_token_id,
                                               Value(id, cfTokens[id].value + 1)),
                             ![s].calls = Append(@, Call("renew_api_token", id,
                                               Value(id, cfTokens[id].value + 1), <<id>>)),
                             ![s].path = "alternate",
                             ![s].pc = "put_secret_value"]
                /\ UNCHANGED run
    /\ UNCHANGED <<Others, stages, content, nextValue, env, healed>>

\* cf.create_origintunnel_service_key(): a new service key, written to KeyValue.
create_origintunnel_service_key(s) ==
    /\ At(s, "create_origintunnel_service_key")
    /\ CanIssueKey
    /\ inv' = [inv EXCEPT
                 ![s].payload = SetAttr(inv[s].current_dict, "KeyValue", nextValue),
                 ![s].calls = Append(@, Call("create_origintunnel_service_key", 0,
                                             <<0, nextValue>>, <<>>)),
                 ![s].pc = "put_secret_value"]
    /\ nextValue' = nextValue + 1
    /\ UNCHANGED <<Others, stages, content, cfTokens, env, healed, run>>

\* get_secret_dict(service_client, tunnel_service_key_arn, "AWSCURRENT")
tunnel_service_key(s) ==
    /\ At(s, "tunnel_service_key")
    /\ inv' = [inv EXCEPT
                 ![s].tunnel_service_key = TunnelServiceKeySecret["Attributes"]["KeyValue"],
                 ![s].pc = "create_argo_tunnel_token"]
    /\ UNCHANGED <<Others, stages, content, cfTokens, nextValue, env, healed, run>>

\* cf.create_argo_tunnel_token: a new private key and origin certificate, formatted
\* with the zone id and the service key.
ArgoToken(zone_id, key, hostname, valid_days, serial) ==
    [zone_id |-> zone_id, tunnel_service_key |-> key, hostname |-> hostname,
     valid_days |-> valid_days, private_key |-> serial]

\* current_dict["TokenValue"] = cf.create_argo_tunnel_token(...)
create_argo_tunnel_token(s) ==
    /\ At(s, "create_argo_tunnel_token")
    /\ CanIssueKey
    /\ LET attrs == inv[s].current_dict["Attributes"]
           value == ArgoToken(attrs["ZoneId"], inv[s].tunnel_service_key,
                              attrs["Hostname"], attrs["ValidityDays"], nextValue)
       IN  inv' = [inv EXCEPT
                     ![s].payload = Set(inv[s].current_dict, "TokenValue", value),
                     ![s].calls = Append(@, Call("create_argo_tunnel_token", 0,
                                                 <<0, nextValue>>, <<>>)),
                     ![s].pc = "put_secret_value"]
    /\ nextValue' = nextValue + 1
    /\ UNCHANGED <<Others, stages, content, cfTokens, env, healed, run>>

\* put_secret_value(..., VersionStages=[...]): the labels of each version after it.
StagesAfterPutCurrent(token) ==
    [v \in VersionIds |-> IF v = token THEN stages[v] \cup {AWSPENDING, AWSCURRENT}
                          ELSE stages[v] \ {AWSPENDING}]

StagesAfterPut(token) ==
    [v \in VersionIds |-> IF v = token THEN stages[v] \cup {AWSPENDING}
                          ELSE stages[v] \ {AWSPENDING}]

\* service_client.put_secret_value(SecretId=arn, ClientRequestToken=token,
\* SecretString=payload, VersionStages=["AWSPENDING"]).  A version's value is
\* written once: the same value again is accepted, another one is refused.
put_secret_value(s) ==
    /\ At(s, "put_secret_value")
    /\ LET token == inv[s].token
           payload == inv[s].payload
       IN  IF content[token] # NoSecret /\ content[token] # payload
           THEN End(s, "error", "ResourceExists") /\ UNCHANGED <<stages, content>>
           ELSE /\ content' = [content EXCEPT ![token] = payload]
                /\ stages' = StagesAfterPut(token)
                /\ EndWith(s, [inv[s] EXCEPT !.calls = Append(@,
                                   Call("put_secret_value", token, <<0, 0>>, <<>>))],
                           "ok", "none")
    /\ UNCHANGED <<Others, cfTokens, nextValue, env, healed>>

-----------------------------------------------------------------------------
\* test_secret.

\* get_secret_dict(service_client, arn, "AWSPENDING"), assert_env, the Type.
test_secret(s) ==
    /\ At(s, "test_secret")
    /\ LET pending_dict == StageValue(AWSPENDING)
       IN  IF pending_dict = NoSecret
           THEN End(s, "error", "ResourceNotFound") /\ UNCHANGED env
           ELSE IF ~assert_env(pending_dict["Type"], env)
           THEN End(s, "error", "AssertEnv") /\ UNCHANGED env
           ELSE /\ env' = EnvAfterAssert(pending_dict["Type"], env)
                /\ IF pending_dict["Type"] = "apiToken"
                   THEN /\ inv' = [inv EXCEPT ![s].current_dict = pending_dict,
                                              ![s].pc = "is_token_valid"]
                        /\ UNCHANGED run
                   ELSE End(s, "ok", "none")
    /\ UNCHANGED <<Others, stages, content, cfTokens, nextValue, healed>>

\* What test_secret does with the answer of cf.is_token_valid.
AcceptAnyToken(valid) == "ok"

RejectAnyToken(valid) == "error"

TestOutcome(valid) == IF valid THEN "ok" ELSE "error"

\* cf.is_token_valid(pending_dict["Attributes"]["TokenValue"])
is_token_valid(s) ==
    /\ At(s, "is_token_valid")
    /\ LET valid == TokenValueValid(inv[s].current_dict["Attributes"]["TokenValue"])
           outcome == TestOutcome(valid)
       IN  /\ EndWith(s, [inv[s] EXCEPT !.valid = valid], outcome,
                      IF outcome = "ok" THEN "none" ELSE "ValueError")
           /\ testFailed' = IF valid THEN testFailed ELSE inv[s].token
    /\ UNCHANGED <<rotationEnabled, stages, content, cfTokens, nextValue, env, healed>>

-----------------------------------------------------------------------------
\* finish_secret.

\* The loop over metadata["VersionIdsToStages"]: the version is already current.
NotYetCurrent(token) == FALSE

AnyVersionCurrent(token) == VersionsWith(AWSCURRENT) # {}

AlreadyCurrent(token) == AWSCURRENT \in stages[token]

\* describe_secret, and the version that carries AWSCURRENT (0: None).
finish_secret(s) ==
    /\ At(s, "finish_secret")
    /\ IF AlreadyCurrent(inv[s].token)
       THEN End(s, "ok", "none")
       ELSE /\ inv' = [inv EXCEPT
                         ![s].current_version =
                             IF VersionsWith(AWSCURRENT) = {} THEN 0
                             ELSE CHOOSE v \in VersionsWith(AWSCURRENT) : TRUE,
                         ![s].pc = "update_secret_version_stage"]
            /\ UNCHANGED run
    /\ UNCHANGED <<Others, stages, content, cfTokens, nextValue, env, healed>>

\* update_secret_version_stage: the labels of each version after the move.
StagesAfterAdd(label, to, from) ==
    [v \in VersionIds |-> IF v = to THEN stages[v] \cup {label} ELSE stages[v]]

StagesAfterMove(label, to, from) ==
    [v \in VersionIds |-> IF v = to THEN stages[v] \cup {label}
                          ELSE IF v = from THEN stages[v] \ {label}
                          ELSE stages[v]]

\* service_client.update_secret_version_stage(SecretId=arn, VersionStage="AWSCURRENT",
\* MoveToVersionId=new_version, RemoveFromVersionId=current_version).  The store
\* refuses the move when the label is not on RemoveFromVersionId, or is on some
\* version and RemoveFromVersionId is None, or MoveToVersionId is no version.
update_secret_version_stage(s) ==
    /\ At(s, "update_secret_version_stage")
    /\ LET new_version == inv[s].token
           current_version == inv[s].current_version
           holders == VersionsWith(AWSCURRENT)
       IN  IF new_version \notin KnownVersions
              \/ (current_version = 0 /\ holders \ {new_version} # {})
              \/ (current_version # 0 /\ current_version \notin holders)
           THEN End(s, "error", "InvalidRequest") /\ UNCHANGED stages
           ELSE /\ stages' = StagesAfterMove(AWSCURRENT, new_version, current_version)
                /\ EndWith(s, [inv[s] EXCEPT !.calls = Append(@,
                                   Call("update_secret_version_stage", new_version,
                                        <<0, 0>>, <<current_version>>))],
                           "ok", "none")
    /\ UNCHANGED <<Others, content, cfTokens, nextValue, env, healed>>

-----------------------------------------------------------------------------

Handler(s) ==
    \/ create_secret(s)
    \/ create_secret_init(s)
    \/ create_secret_pending(s)
    \/ rotate_or_create_api_token(s)
    \/ rotate_between_api_tokens(s)
    \/ create_api_token(s)
    \/ clone_api_token(s)
    \/ renew_api_token(s)
    \/ create_origintunnel_service_key(s)
    \/ tunnel_service_key(s)
    \/ create_argo_tunnel_token(s)
    \/ put_secret_value(s)
    \/ test_secret(s)
    \/ is_token_valid(s)
    \/ finish_secret(s)
    \/ update_secret_version_stage(s)
    \/ CallFails(s)

Next ==
    \/ StartRotation
    \/ DeleteToken
    \/ Invoke
    \/ \E s \in Slots : Handler(s)

\* Rotation events handled one at a time.
Spec == Init /\ [][Next]_vars

\* Rotation events that may be delivered twice, the two handled concurrently.
ConcurrentNext == Next \/ InvokeDuplicate \/ InvokeAfterDuplicate

ConcurrentSpec == Init /\ [][ConcurrentNext]_vars

-----------------------------------------------------------------------------
\* The validity window cf.clone_api_token and cf.renew_api_token compute.  A
\* datetime is a number of ticks, a formatted date a number of whole seconds.

TicksPerSecond == 2
MaxSeconds == 2
MaxNow == 5

Seconds == 0..MaxSeconds
Nows == 0..MaxNow

\* strftime("%Y-%m-%dT%H:%M:%SZ"): the fraction of the second is dropped.
date_fmt(d) == d \div TicksPerSecond

\* dateutil's isoparse of a date formatted to the second.
isoparse(str) == str * TicksPerSecond

\* new_token["expires_on"] = date_fmt(now + (expires_date - issued_date))
ExpiresOnSameDate(now, issued_on, expires_on) == date_fmt(isoparse(expires_on))

ExpiresOn(now, issued_on, expires_on) ==
    date_fmt(now + (isoparse(expires_on) - isoparse(issued_on)))

\* A token as Cloudflare returns it: issued_on, not_before, and expires_on when
\* expires is TRUE.
TimedToken(value, expires, issued_on, not_before, expires_on) ==
    [state |-> "live", value |-> value, expires |-> expires,
     issued_on |-> issued_on, not_before |-> not_before, expires_on |-> expires_on]

NoTimedToken == [state |-> "none", value |-> 0, expires |-> FALSE,
                 issued_on |-> 0, not_before |-> 0, expires_on |-> 0]

\* One token, issued at t0, expiring at t1 >= t0 or never.
WindowInit ==
    /\ rotationEnabled = TRUE
    /\ stages = [v \in VersionIds |-> {}]
    /\ content = [v \in VersionIds |-> NoSecret]
    /\ nextValue = 1
    /\ env = TokenEnv
    /\ inv = [s \in Slots |-> Idle]
    /\ testFailed = 0
    /\ healed = {}
    /\ run = CleanRun0
    /\ \E t0 \in Seconds, t1 \in Seconds, expires \in BOOLEAN :
          /\ t0 <= t1
          /\ ~expires => t1 = t0
          /\ cfTokens = [i \in TokenIds |->
                           IF i = 1
                           THEN TimedToken(1, expires, t0, t0, IF expires THEN t1 ELSE 0)
                           ELSE NoTimedToken]

\* The outcome of a call, as the caller sees it.
WindowCall(op, id, value, now, source, failure) ==
    inv' = [inv EXCEPT ![1] =
              [Idle EXCEPT !.status = IF failure = "none" THEN "ok" ELSE "error",
                           !.step = "createSecret", !.pc = "done",
                           !.failure = failure,
                           !.calls = <<Call(op, id, value,
                                            <<now, source.issued_on, source.expires_on>>)>>]]

\* cf.clone_api_token(token_id) at time now.
CloneWindow(token_id, now) ==
    /\ Exists(token_id)
    /\ LET existing_token == cfTokens[token_id]
           id == FreshId
       IN  IF ~existing_token.expires
           THEN /\ WindowCall("clone_api_token", 0, <<0, 0>>, now, existing_token,
                              "UnboundLocalError")
                /\ UNCHANGED cfTokens
           ELSE /\ FreshIds # {}
                /\ cfTokens' = [cfTokens EXCEPT ![id] =
                                  TimedToken(1, TRUE, date_fmt(now), date_fmt(now),
                                             ExpiresOn(now, existing_token.issued_on,
                                                       existing_token.expires_on))]
                /\ WindowCall("clone_api_token", id, Value(id, 1), now, existing_token,
                              "none")
    /\ UNCHANGED <<rotationEnabled, stages, content, nextValue, env, testFailed,
                   healed, run>>

\* cf.renew_api_token(token_id) at time now.
RenewWindow(token_id, now) ==
    /\ Exists(token_id)
    /\ LET existing_token == cfTokens[token_id]
       IN  IF ~existing_token.expires
           THEN /\ WindowCall("renew_api_token", 0, <<0, 0>>, now, existing_token,
                              "UnboundLocalError")
                /\ UNCHANGED cfTokens
           ELSE /\ CanRoll(token_id)
                /\ cfTokens' = [cfTokens EXCEPT ![token_id] =
                                  TimedToken(existing_token.value + 1, TRUE,
                                             existing_token.issued_on, date_fmt(now),
                                             ExpiresOn(now, existing_token.issued_on,
                                                       existing_token.expires_on))]
                /\ WindowCall("renew_api_token", token_id,
                              Value(token_id, existing_token.value + 1), now,
                              existing_token, "none")
    /\ UNCHANGED <<rotationEnabled, stages, content, nextValue, env, testFailed,
                   healed, run>>

WindowNext ==
    \E token_id \in TokenIds, now \in Nows :
        \/ CloneWindow(token_id, now)
        \/ RenewWindow(token_id, now)

WindowSpec == WindowInit /\ [][WindowNext]_vars

-----------------------------------------------------------------------------
\* Properties.

Ended1(s) == inv[s].status \in {"ok", "error"}
CurrentVersions == VersionsWith(AWSCURRENT)
CurrentView == <<VersionsWith(AWSCURRENT), StageValue(AWSCURRENT)>>
HasAttr(d, k) == d # NoSecret /\ Has(d["Attributes"], k)
IsApiToken(d) == d # NoSecret /\ d["Type"] = "apiToken"
\* The invocation of slot s takes this step.
Acts(s) == Running(s) /\ inv'[s] # inv[s]
\* The calls of an invocation that issued a credential at Cloudflare.
Issued(s) == SelectSeq(inv[s].calls,
                 LAMBDA c : c.op \notin {"put_secret_value", "update_secret_version_stage"})

\* C1: in every reachable state, whatever steps were invoked, replayed or failed
\* part-way, at most one version carries AWSCURRENT.
C1_AtMostOneCurrent == Cardinality(VersionsWith(AWSCURRENT)) <= 1

C1_Witness ==
    /\ \E v \in VersionIds : v # InitVersion /\ AWSCURRENT \in stages[v]
    /\ inv[1].status = "error" /\ inv[1].calls # <<>>

\* C2: the set of versions carrying AWSCURRENT and the value of the AWSCURRENT
\* version change only in the update_secret_version_stage call of finishSecret;
\* no step of createSecret, setSecret or testSecret changes them.
C2_OnlyFinishChangesCurrent ==
    [][CurrentView' # CurrentView =>
         \E s \in Slots : /\ Acts(s)
                          /\ inv[s].step = "finishSecret"
                          /\ inv[s].pc = "update_secret_version_stage"]_vars

C2_Witness ==
    /\ inv[1].step = "createSecret" /\ inv[1].status = "ok" /\ inv[1].calls # <<>>
    /\ content[inv[1].token] # NoSecret
    /\ VersionsWith(AWSCURRENT) = {InitVersion}

\* C3: from AWSCURRENT = {TokenId 1}, after n complete successful rotations the
\* record is {TokenId 2, OtherTokenId 1} for odd n and {TokenId 1, OtherTokenId 2}
\* for even n >= 2, its TokenValue is the live value of its TokenId, and tokens 1
\* and 2 are the only ones that exist.
C3_Alternation ==
    (run.clean /\ run.expect = "start") =>
        LET a == StageValue(AWSCURRENT)["Attributes"]
            even == run.rotations % 2 = 0
        IN  /\ a["TokenId"] = (IF even THEN 1 ELSE 2)
            /\ IF run.rotations = 0 THEN ~Has(a, "OtherTokenId")
               ELSE Has(a, "OtherTokenId") /\ a["OtherTokenId"] = (IF even THEN 2 ELSE 1)
            /\ a["TokenValue"] = LiveValue(a["TokenId"])
            /\ {i \in TokenIds : cfTokens[i].state # "none"}
                 = (IF run.rotations = 0 THEN {1} ELSE {1, 2})

C3_Witness == run.clean /\ run.expect = "start" /\ run.rotations = 2

\* C4: a createSecret that follows a createSecret for the same version which
\* returned without error makes no call that issues a credential and no
\* put_secret_value, and leaves every stored value, label and token as it was.
ReplayedCreate(s) == inv[s].step = "createSecret" /\ inv[s].replay

C4_CreateIdempotent ==
    /\ [](\A s \in Slots : ReplayedCreate(s) => inv[s].calls = <<>>)
    /\ [][(\E s \in Slots : ReplayedCreate(s) /\ Acts(s)) =>
            (content' = content /\ stages' = stages /\ cfTokens' = cfTokens)]_vars

C4_Witness ==
    /\ ReplayedCreate(1) /\ inv[1].status = "ok"
    /\ content[inv[1].token] # NoSecret

\* A token's value changes only in the renew call of a createSecret, and the
\* token renewed is not the TokenId of the AWSCURRENT record.
C5_RolledOnlyAsStandby ==
    \A x \in TokenIds :
        /\ (cfTokens[x].state = "live" /\ cfTokens'[x].value # cfTokens[x].value) =>
              /\ \E s \in Slots : Acts(s) /\ inv[s].step = "createSecret"
                                  /\ inv[s].pc = "renew_api_token"
              /\ HasAttr(StageValue(AWSCURRENT), "OtherTokenId")
              /\ StageValue(AWSCURRENT)["Attributes"]["OtherTokenId"] = x
              /\ StageValue(AWSCURRENT)["Attributes"]["TokenId"] # x
        /\ (cfTokens[x].state = "live" /\ cfTokens'[x].state # "live") => inv' = inv

\* Between invocations the AWSCURRENT TokenValue is the live value of its TokenId.
C5_PreviousStillValid ==
    (/\ run.clean /\ run.rotations >= 1 /\ run.expect \in {"start", "createSecret"}
     /\ \A s \in Slots : ~Running(s)) =>
        LET old == content[InitVersion + run.rotations - 1]["Attributes"]
        IN  /\ old["TokenId"] # StageValue(AWSCURRENT)["Attributes"]["TokenId"]
            /\ old["TokenValue"] = LiveValue(old["TokenId"])
            /\ TokenValueValid(old["TokenValue"])

\* C5: a token's value is rolled only by the renew call of a createSecret, and
\* then the token is the OtherTokenId of the AWSCURRENT record, never its
\* TokenId; a token stops existing only by deletion outside the program.  So
\* after a complete rotation the TokenValue of the record that was AWSCURRENT
\* before it is still the live value of its token.
C5_ZeroDowntime == []C5_PreviousStillValid /\ [][C5_RolledOnlyAsStandby]_vars

C5_Witness ==
    /\ run.clean /\ run.rotations = 1 /\ run.expect = "testSecret"
    /\ inv[1].path = "alternate"

\* Both invocations of a duplicated createSecret have ended, no call failed and
\* no token was deleted.
DuplicateEnded ==
    /\ Ended1(1) /\ Ended1(2)
    /\ inv[1].step = "createSecret" /\ inv[2].step = "createSecret"
    /\ inv[1].failure # "CallFailed" /\ inv[2].failure # "CallFailed"
    /\ \A i \in TokenIds : cfTokens[i].state # "deleted"

\* C6: two concurrent createSecret invocations for the same version, with no call
\* failing and no token deleted, end as one invocation ends: both return without
\* error, one credential was issued, and the AWSPENDING TokenValue is the live
\* value of its TokenId.
C6_DuplicatesConverge ==
    DuplicateEnded =>
        /\ inv[1].status = inv[2].status
        /\ Len(Issued(1)) + Len(Issued(2)) <= 1
        /\ LET pending == StageValue(AWSPENDING)
           IN  (IsApiToken(pending) /\ HasAttr(pending, "TokenValue")) =>
                   TokenValueValid(pending["Attributes"]["TokenValue"])

\* C7 as stated: a version whose testSecret failed never carries AWSCURRENT.
C7_FailedNeverCurrent == testFailed # 0 => AWSCURRENT \notin stages[testFailed]

\* A testSecret whose token check answered false ended in error.
C7_FailedTestRaises ==
    \A s \in Slots :
        (inv[s].step = "testSecret" /\ Ended1(s) /\ ~inv[s].valid) =>
            /\ inv[s].status = "error"
            /\ testFailed = inv[s].token
            /\ AWSCURRENT \notin stages[inv[s].token]

\* A version whose test failed gains AWSCURRENT only in finishSecret's store call.
C7_PromotedOnlyByFinish ==
    (testFailed # 0 /\ testFailed' = testFailed
     /\ AWSCURRENT \notin stages[testFailed] /\ AWSCURRENT \in stages'[testFailed]) =>
        \E s \in Slots : /\ Acts(s)
                         /\ inv[s].step = "finishSecret"
                         /\ inv[s].token = testFailed
                         /\ inv[s].pc = "update_secret_version_stage"

\* C7 as amended: a testSecret whose token check answers false raises and leaves
\* the version without AWSCURRENT, and the version gets AWSCURRENT afterwards only
\* by the update_secret_version_stage call of a finishSecret invoked for it.
C7_FailedTestBlocksOnlyItself == []C7_FailedTestRaises /\ [][C7_PromotedOnlyByFinish]_vars

C7_Witness ==
    /\ inv[1].step = "testSecret" /\ inv[1].status = "error" /\ ~inv[1].valid
    /\ testFailed = inv[1].token

\* C8: a createSecret that finds no TokenId in the CFINIT record makes one call
\* that issues a credential, create_api_token with the record's Name, Policies and
\* ValidDays, and writes the record with TokenId and TokenValue set to the issued
\* id and value and nothing else changed: no OtherTokenId.
C8_Bootstrap ==
    \A s \in Slots :
        (inv[s].step = "createSecret" /\ inv[s].path = "bootstrap"
         /\ inv[s].status = "ok") =>
            LET c == inv[s].calls
                written == content[inv[s].token]
                init == StageValue(CFINIT)
            IN  /\ Len(c) = 2 /\ Len(Issued(s)) = 1
                /\ c[1].op = "create_api_token"
                /\ c[1].arg = <<init["Attributes"]["Name"], init["Attributes"]["Policies"],
                                init["Attributes"]["ValidDays"]>>
                /\ c[2].op = "put_secret_value" /\ c[2].id = inv[s].token
                /\ written["Attributes"]["TokenId"] = c[1].id
                /\ written["Attributes"]["TokenValue"] = c[1].value
                /\ ~Has(written["Attributes"], "OtherTokenId")
                /\ DOMAIN written["Attributes"] =
                       DOMAIN init["Attributes"] \cup {"TokenId", "TokenValue"}

C8_Witness ==
    /\ inv[1].step = "createSecret" /\ inv[1].path = "bootstrap" /\ inv[1].status = "ok"
    /\ VersionsWith(AWSCURRENT) = {}
    /\ AWSPENDING \in stages[inv[1].token]

\* The outcome of a createSecret that found the TokenId gone.
C9_HealedRecord ==
    \A s \in Slots :
        (inv[s].step = "createSecret" /\ inv[s].path = "selfheal") =>
            /\ inv[s].status = "error" => inv[s].failure = "CallFailed"
            /\ inv[s].status = "ok" =>
                  LET c == inv[s].calls
                      written == content[inv[s].token]["Attributes"]
                  IN  /\ Len(c) = 2 /\ c[1].op = "create_api_token"
                      /\ c[1].id \notin healed
                      /\ written["TokenId"] = c[1].id
                      /\ written["TokenValue"] = c[1].value
                      /\ Has(written, "OtherTokenId") => written["OtherTokenId"] \notin healed

\* No record written names a token found gone as OtherTokenId.
C9_NeverStandbyAgain ==
    \A v \in VersionIds :
        (content'[v] # content[v] /\ HasAttr(content'[v], "OtherTokenId")) =>
            content'[v]["Attributes"]["OtherTokenId"] \notin healed'

\* C9: a createSecret that finds the record's TokenId gone raises nothing of its
\* own; it issues a new token, writes it as TokenId with its value, and neither
\* that record nor any record written later names a token found gone as
\* OtherTokenId.
C9_SelfHeal == []C9_HealedRecord /\ [][C9_NeverStandbyAgain]_vars

C9_Witness ==
    /\ inv[1].step = "createSecret" /\ inv[1].path = "selfheal" /\ inv[1].status = "ok"
    /\ healed # {}
    /\ \E i \in healed : cfTokens[i].state = "deleted"

\* The outcome of a finishSecret that returned without error.
C10_FinishedIsCurrent ==
    \A s \in Slots :
        (inv[s].step = "finishSecret" /\ inv[s].status = "ok" /\ inv[s].token # 0) =>
            /\ VersionsWith(AWSCURRENT) = {inv[s].token}
            /\ Len(inv[s].calls) <= 1
            /\ inv[s].calls # <<>> =>
                  /\ inv[s].calls[1].op = "update_secret_version_stage"
                  /\ inv[s].calls[1].id = inv[s].token

\* Every change of the AWSCURRENT set is one step that leaves one version in it.
C10_MovedInOneCall ==
    VersionsWith(AWSCURRENT)' # VersionsWith(AWSCURRENT) =>
        \E s \in Slots : /\ Acts(s)
                         /\ VersionsWith(AWSCURRENT)' = {inv[s].token}
                         /\ inv'[s].status = "ok"

\* C10: after a finishSecret that ran for a version carrying AWSPENDING and
\* returned without error, that version and no other carries AWSCURRENT; the label
\* gets there in one update_secret_version_stage call, with no state in between
\* where no version or two versions carry it, also when no version carried it.
C10_FinishMovesCurrent == []C10_FinishedIsCurrent /\ [][C10_MovedInOneCall]_vars

C10_Witness ==
    /\ inv[1].step = "finishSecret" /\ inv[1].status = "ok"
    /\ inv[1].calls # <<>> /\ inv[1].calls[1].op = "update_secret_version_stage"
    /\ inv[1].calls[1].arg # <<0>> /\ inv[1].calls[1].arg # <<inv[1].token>>
    /\ VersionsWith(AWSCURRENT) = {inv[1].token}

\* An event for this step and version arrives at slot s and describe_secret
\* answers: the step lambda_handler takes.
Handles(s, step, token) ==
    /\ ~Running(s) /\ inv'[s] # inv[s]
    /\ inv'[s].step = step /\ inv'[s].token \in {0, token}
    /\ inv'[s].failure # "CallFailed"
    /\ lambda_handler(s, step, token)

StoreUnchanged == stages' = stages /\ content' = content
ProviderUnchanged == cfTokens' = cfTokens /\ nextValue' = nextValue

\* A finishSecret event for a version that carries AWSCURRENT returns in
\* lambda_handler, and so does every finishSecret that follows.
C11_FinishAgainReturns ==
    \A s \in Slots, token \in VersionIds :
        (rotationEnabled /\ AWSCURRENT \in stages[token]
         /\ Handles(s, "finishSecret", token)) =>
            /\ inv'[s].status = "ok" /\ inv'[s].calls = <<>>
            /\ StoreUnchanged
            /\ AWSCURRENT \in stages'[token]

\* finish_secret finds its version AWSCURRENT already: it returns, no store call.
C11_FinishFindsCurrent ==
    \A s \in Slots :
        (At(s, "finish_secret") /\ Acts(s) /\ inv'[s].failure # "CallFailed"
         /\ AWSCURRENT \in stages[inv[s].token]) =>
            /\ inv'[s].status = "ok" /\ inv'[s].calls = <<>>
            /\ StoreUnchanged

\* C11: a finishSecret whose version carries AWSCURRENT already returns without
\* an error and without a call that changes the store, whether lambda_handler or
\* finish_secret finds it so; a second finishSecret after the first leaves the
\* stage labels as the first left them.
C11_FinishIdempotent ==
    [][C11_FinishAgainReturns /\ C11_FinishFindsCurrent]_vars

C11_Witness ==
    /\ inv[2].step = "finishSecret" /\ inv[2].status = "ok" /\ inv[2].token # 0
    /\ inv[2].calls = <<>>
    /\ inv[1].step = "finishSecret" /\ inv[1].status = "ok" /\ inv[1].calls # <<>>
    /\ VersionsWith(AWSCURRENT) = {inv[2].token}

\* C12: an event, for any step, that names a version carrying AWSCURRENT returns
\* without an error from lambda_handler: no step runs, nothing is called at
\* Cloudflare, and the values and stage labels of the secret stay as they are.
C12_CurrentVersionNoOp ==
    [][\A s \in Slots, step \in Steps, token \in VersionIds :
          (rotationEnabled /\ AWSCURRENT \in stages[token] /\ Handles(s, step, token)) =>
              /\ inv'[s].status = "ok" /\ inv'[s].pc = "done" /\ inv'[s].calls = <<>>
              /\ StoreUnchanged /\ ProviderUnchanged]_vars

C12_Witness ==
    /\ inv[1].step = "createSecret" /\ inv[1].status = "ok" /\ inv[1].token = 0
    /\ inv[1].pc = "done" /\ inv[1].calls = <<>>
    /\ VersionsWith(AWSCURRENT) # {} /\ VersionsWith(AWSCURRENT) # {InitVersion}

\* C13: when rotation is disabled, or the version is not one of the secret, or it
\* carries neither AWSCURRENT nor AWSPENDING, the event ends in an error in
\* lambda_handler whatever the step: no step runs, nothing is called at
\* Cloudflare, and the values and stage labels of the secret stay as they are.
C13_FailsFast ==
    [][\A s \in Slots, step \in Steps, token \in VersionIds :
          (/\ \/ ~rotationEnabled
              \/ stages[token] = {}
              \/ stages[token] \cap {AWSCURRENT, AWSPENDING} = {}
           /\ ~Running(s) /\ inv'[s] # inv[s]
           /\ inv'[s].step = step /\ inv'[s].token \in {0, token}
           /\ lambda_handler(s, step, token)) =>
              /\ inv'[s].status = "error" /\ inv'[s].pc = "done" /\ inv'[s].calls = <<>>
              /\ StoreUnchanged /\ ProviderUnchanged]_vars

C13_Witness ==
    /\ inv[1].status = "error" /\ inv[1].failure = "NotPending"
    /\ inv[1].step = "finishSecret"
    /\ rotationEnabled

\* The put_secret_value calls of an invocation.
Puts(s) == SelectSeq(inv[s].calls, LAMBDA c : c.op = "put_secret_value")

\* The calls of a createSecret: at most one that issues, at most one put, the put
\* last and after the issuing call; none when the invocation raised.
C14_PutLast ==
    \A s \in Slots :
        inv[s].step = "createSecret" =>
            /\ Len(Puts(s)) <= 1 /\ Len(Issued(s)) <= 1
            /\ Puts(s) # <<>> =>
                  /\ inv[s].status = "ok"
                  /\ Len(inv[s].calls) = 2
                  /\ Issued(s) = <<inv[s].calls[1]>>
                  /\ inv[s].calls[2].op = "put_secret_value"
            /\ inv[s].status = "error" => Puts(s) = <<>>

\* A version's value is written only by the put_secret_value call of a createSecret
\* for that version, which then returns; a createSecret that raises wrote nothing.
C14_WrittenOnlyByPut ==
    /\ \A v \in VersionIds :
          content'[v] # content[v] =>
              \E s \in Slots : /\ Acts(s) /\ inv[s].step = "createSecret"
                               /\ inv[s].pc = "put_secret_value" /\ inv[s].token = v
                               /\ inv[s].payload = content'[v]
                               /\ inv'[s].status = "ok"
    /\ \A s \in Slots :
          (Acts(s) /\ inv'[s].status = "error") => StoreUnchanged

\* C14: a createSecret calls put_secret_value at most once, as its last call,
\* after its reads of the store and its one call to Cloudflare returned; when
\* any call fails the invocation raises, repeats no call, and has written no
\* value for its version.
C14_NoPartialWrite == []C14_PutLast /\ [][C14_WrittenOnlyByPut]_vars

C14_Witness ==
    /\ inv[1].step = "createSecret" /\ inv[1].status = "error"
    /\ Len(inv[1].calls) = 1 /\ Issued(1) # <<>>
    /\ content[inv[1].token] = NoSecret /\ AWSPENDING \in stages[inv[1].token]

\* C15: for an apiToken secret, as long as no token was deleted at Cloudflare,
\* at most two tokens were ever created for it, whatever events were handled,
\* replayed, failed or abandoned.
C15_AtMostTwoTokens ==
    (IsApiToken(content[InitVersion])
     /\ \A i \in TokenIds : cfTokens[i].state # "deleted") =>
        Cardinality({i \in TokenIds : cfTokens[i].state = "live"}) <= 2

\* C16: the token a clone or a renewal at time now leaves, made from a token
\* issued at t0 and expiring at t1, has not_before = now and expires_on =
\* now + (t1 - t0), now taken to the second as the dates are formatted.
C16_WindowPreserved ==
    (inv[1].status = "ok" /\ inv[1].calls # <<>>) =>
        LET c == inv[1].calls[1]
            now == c.arg[1]
            t0 == c.arg[2]
            t1 == c.arg[3]
            token == cfTokens[c.id]
        IN  /\ token.state = "live" /\ token.expires
            /\ token.not_before = now \div TicksPerSecond
            /\ token.expires_on = (now \div TicksPerSecond) + (t1 - t0)
            /\ token.expires_on - token.not_before = t1 - t0

C16_Witness ==
    /\ inv[1].status = "ok" /\ inv[1].calls # <<>>
    /\ inv[1].calls[1].op = "renew_api_token"
    /\ inv[1].calls[1].arg[3] > inv[1].calls[1].arg[2]
    /\ inv[1].calls[1].arg[1] > isoparse(inv[1].calls[1].arg[3])
    /\ inv[1].calls[1].arg[1] % TicksPerSecond # 0

\* What ended a testSecret: a failed call, no AWSPENDING value to load, or the
\* token check; the token check raises exactly when the answer was false.
C17_TestFailures ==
    \A s \in Slots :
        (inv[s].step = "testSecret" /\ Ended1(s)) =>
            /\ inv[s].calls = <<>>
            /\ inv[s].status = "error" =>
                  inv[s].failure \in {"CallFailed", "ResourceNotFound", "ValueError",
                                      "RotationDisabled", "NoStage", "NotPending"}
            /\ inv[s].failure = "ValueError" <=> ~inv[s].valid

\* The steps of a testSecret that loaded the AWSPENDING value.
C17_TestSteps ==
    \A s \in Slots :
        (inv[s].step = "testSecret" /\ Acts(s) /\ inv'[s].failure # "CallFailed") =>
            /\ StoreUnchanged
            /\ (inv[s].pc = "test_secret" /\ StageValue(AWSPENDING) # NoSecret) =>
                  IF StageValue(AWSPENDING)["Type"] = "apiToken"
                  THEN inv'[s].pc = "is_token_valid" /\ Running(s)'
                  ELSE inv'[s].status = "ok" /\ ProviderUnchanged
            /\ inv[s].pc = "is_token_valid" =>
                  /\ inv'[s].status =
                        IF TokenValueValid(inv[s].current_dict["Attributes"]["TokenValue"])
                        THEN "ok" ELSE "error"
                  /\ ProviderUnchanged

\* C17: a testSecret that loads the AWSPENDING value raises exactly when the Type
\* is apiToken and cf.is_token_valid answers false for its TokenValue; for
\* tunnelServiceKey and argoTunnelToken it returns without calling Cloudflare;
\* no step of it changes a value or a stage label of the secret.
C17_TestByKindAndLiveness == []C17_TestFailures /\ [][C17_TestSteps]_vars

C17_Witness ==
    /\ inv[1].step = "testSecret" /\ inv[1].status = "ok" /\ inv[1].token # 0
    /\ StageValue(AWSPENDING) # NoSecret
    /\ StageValue(AWSPENDING)["Type"] = "argoTunnelToken"
    /\ AWSPENDING \in stages[inv[1].token]

\* The configuration createSecret needs for the Type is not in the environment,
\* or the Type is none of the three.
NotConfigured(secret_type, e) ==
    CASE secret_type = "apiToken" ->
             "CF_API_TOKEN" \notin e /\ ~({"CF_API_KEY", "CF_API_EMAIL"} \subseteq e)
      [] secret_type = "tunnelServiceKey" -> ~({"CF_API_KEY", "CF_API_EMAIL"} \subseteq e)
      [] secret_type = "argoTunnelToken" -> "CF_API_CERTKEY" \notin e
      [] OTHER -> TRUE

\* C18: a createSecret that has no AWSPENDING value to return and finds the
\* configuration for the record's Type missing, or the Type unknown, raises at
\* that point: it has called nothing at Cloudflare and writes no value.
C18_NotConfiguredRaises ==
    [][\A s \in Slots :
          (/\ At(s, "get_pending") /\ Acts(s)
           /\ ~PendingRetrieved(inv[s].token)
           /\ NotConfigured(inv[s].current_dict["Type"], env)) =>
              /\ inv'[s].status = "error" /\ inv'[s].calls = <<>>
              /\ StoreUnchanged /\ ProviderUnchanged
              /\ content'[inv[s].token] = NoSecret]_vars

C18_Witness ==
    /\ inv[1].step = "createSecret" /\ inv[1].status = "error"
    /\ inv[1].failure = "AssertEnv" /\ inv[1].calls = <<>>
    /\ StageValue(AWSCURRENT) # NoSecret /\ StageValue(AWSCURRENT)["Type"] = "otherType"
    /\ content[inv[1].token] = NoSecret

\* C19: the record a createSecret writes after finding the TokenId gone has no
\* OtherTokenId, whatever the record it started from had.
C19_HealDropsStandby ==
    \A s \in Slots :
        (inv[s].step = "createSecret" /\ inv[s].path = "selfheal"
         /\ inv[s].status = "ok") =>
            ~HasAttr(content[inv[s].token], "OtherTokenId")

\* C20: the apiToken record a createSecret writes has the id and the value that
\* its call to Cloudflare returned as TokenId and TokenValue, and an OtherTokenId
\* in it names another token than TokenId, one that cf.token_exists answered True
\* for in this invocation.
C20_WrittenRecord ==
    [][\A s \in Slots :
          (At(s, "put_secret_value") /\ Acts(s) /\ inv'[s].status = "ok"
           /\ IsApiToken(inv[s].payload)) =>
              LET written == content'[inv[s].token]["Attributes"]
                  c == inv[s].calls[1]
              IN  /\ written["TokenId"] = c.id
                  /\ written["TokenValue"] = c.value
                  /\ Has(written, "OtherTokenId") =>
                        /\ written["OtherTokenId"] # written["TokenId"]
                        /\ written["OtherTokenId"] \in inv[s].verified]_vars

-----------------------------------------------------------------------------
\* The reads of the reference record that create_secret makes before it looks
\* for the AWSPENDING value of the version.
ReadsReference(s) ==
    Running(s) /\ inv[s].step = "createSecret"
    /\ inv[s].pc \in {"create_secret", "get_init"}

\* C21: a createSecret for a version whose AWSPENDING value is there already
\* returns without an error whatever becomes of the reads of the AWSCURRENT and
\* CFINIT versions: no step it takes at those reads ends it with an error.
C21_PendingCheckedFirst ==
    [][\A s \in Slots :
          (ReadsReference(s) /\ Acts(s) /\ PendingRetrieved(inv[s].token)) =>
              /\ inv'[s].status # "error"
              /\ StoreUnchanged /\ ProviderUnchanged]_vars

\* The service key create_secret is to use for an argoTunnelToken record: the
\* KeyValue of the AWSCURRENT version of the secret TunnelServiceKeyArn names, or
\* CF_TUNNEL_SERVICE_KEY of the environment.
ServiceKeyFor(d) ==
    IF HasAttr(d, "TunnelServiceKeyArn")
    THEN TunnelServiceKeySecret["Attributes"]["KeyValue"]
    ELSE "key-from-env"

\* The tunnel token made of the record's ZoneId, Hostname and ValidityDays and
\* of the service key, with the private key call c generated.
TunnelTokenFor(d, c) ==
    ArgoToken(d["Attributes"]["ZoneId"], ServiceKeyFor(d),
              d["Attributes"]["Hostname"], d["Attributes"]["ValidityDays"],
              c.value[2])

\* C22: a createSecret that writes the value of an argoTunnelToken record has
\* asked Cloudflare for one tunnel token, made of the record's ZoneId, Hostname
\* and ValidityDays and of the service key, and the value it writes is the record
\* it read with Attributes.TokenValue set to that token and nothing else changed.
C22_TunnelTokenRecord ==
    [][\A s \in Slots :
          (/\ At(s, "put_secret_value") /\ Acts(s) /\ inv'[s].status = "ok"
           /\ inv[s].current_dict["Type"] = "argoTunnelToken") =>
              LET read == inv[s].current_dict
                  written == content'[inv[s].token]
              IN  /\ Len(Issued(s)) = 1
                  /\ Issued(s)[1].op = "create_argo_tunnel_token"
                  /\ written = SetAttr(read, "TokenValue",
                                       TunnelTokenFor(read, Issued(s)[1]))]_vars

-----------------------------------------------------------------------------
\* One rotation after the other, driven by a caller that invokes the steps in
\* order: createSecret, setSecret, testSecret, finishSecret for the version that
\* carries AWSPENDING, a step again when it raised, a step that returned any
\* number of times more.  No call to Secrets Manager or Cloudflare raises of
\* itself and no token is deleted.

Pending == VersionsWith(AWSPENDING)
Target == CHOOSE v \in Pending : TRUE

\* The rotation of the pending version is over: it carries AWSCURRENT.
Terminal == Pending # {} /\ Pending \subseteq VersionsWith(AWSCURRENT)

\* The step the caller goes on with after the last invocation.
NextStep ==
    IF inv[1].status # "ok"
    THEN IF inv[1].step = "none" THEN "createSecret" ELSE inv[1].step
    ELSE CASE inv[1].step = "createSecret" -> "setSecret"
           [] inv[1].step = "setSecret" -> "testSecret"
           [] OTHER -> "finishSecret"

\* Secrets Manager starts the next rotation once the one before it is over:
\* AWSPENDING goes to a version id never used, and the steps start over.
RotateSecret ==
    /\ ~Running(1)
    /\ Pending \subseteq VersionsWith(AWSCURRENT)
    /\ \E v \in VersionIds :
          /\ stages[v] = {} /\ content[v] = NoSecret
          /\ \A w \in VersionIds : w < v => (stages[w] # {} \/ content[w] # NoSecret)
          /\ stages' = [w \in VersionIds |->
                          IF w = v THEN {AWSPENDING} ELSE stages[w] \ {AWSPENDING}]
    /\ inv' = [inv EXCEPT ![1] = Idle]
    /\ run' = IF run.clean /\ run.expect = "start"
              THEN [run EXCEPT !.expect = "createSecret"] ELSE CleanRun0
    /\ UNCHANGED <<rotationEnabled, content, cfTokens, nextValue, env,
                   testFailed, healed>>

\* The event for a step of the pending version; describe_secret answers.
CallerInvoke(step) ==
    /\ ~Running(1) /\ Pending # {}
    /\ lambda_handler(1, step, Target)
    /\ inv'[1].failure # "CallFailed"

\* The caller goes on: the next step, or the step that raised once more.
Advance == ~Terminal /\ CallerInvoke(NextStep)

\* The caller repeats the step that returned, or any step once the rotation is over.
Replay ==
    \E step \in Steps \ {"otherStep"} :
        /\ Terminal \/ (step = inv[1].step /\ inv[1].status = "ok")
        /\ CallerInvoke(step)

\* The handler's next call, answered.
Answered == Handler(1) /\ inv'[1].failure # "CallFailed"

FairNext == RotateSecret \/ Advance \/ Replay \/ Answered

\* The handler runs on to its return or its exception, and the caller does not
\* repeat a step for ever.
FairSpec == Init /\ [][FairNext]_vars /\ WF_vars(Answered) /\ SF_vars(Advance)

\* The record create_secret starts from, and whether the deployment has what
\* its Type needs: rotation enabled, the environment assert_env asks for, and a
\* service key for a tunnel token.
Reference ==
    IF StageValue(AWSCURRENT) # NoSecret THEN StageValue(AWSCURRENT)
    ELSE StageValue(CFINIT)

Configured ==
    /\ rotationEnabled
    /\ Reference # NoSecret
    /\ assert_env(Reference["Type"], env)
    /\ (Reference["Type"] = "argoTunnelToken"
        /\ ~HasAttr(Reference, "TunnelServiceKeyArn")) =>
            "CF_TUNNEL_SERVICE_KEY" \in env

\* The branch of create_secret for the reference record gets to issue a
\* credential: the token cf.clone_api_token or cf.renew_api_token is to start
\* from has an expires_on.
IssuesCredential ==
    (IsApiToken(Reference) /\ HasAttr(Reference, "TokenId")
     /\ Exists(Reference["Attributes"]["TokenId"])) =>
        LET attrs == Reference["Attributes"]
            from == IF Has(attrs, "OtherTokenId") /\ Exists(attrs["OtherTokenId"])
                    THEN attrs["OtherTokenId"] ELSE attrs["TokenId"]
        IN  cfTokens[from].expires

C23_ReachesCurrent ==
    \A v \in VersionIds :
        (AWSPENDING \in stages[v] /\ Configured /\ IssuesCredential)
            ~> (AWSCURRENT \in stages[v])

\* Once the pending version carries AWSCURRENT, a step invoked for it again
\* changes neither a label nor a value of the secret nor anything at Cloudflare.
C23_StaysCurrent ==
    \A v \in VersionIds :
        ({AWSPENDING, AWSCURRENT} \subseteq stages[v]
         /\ AWSPENDING \in stages'[v]) =>
            StoreUnchanged /\ ProviderUnchanged

StartsFrom(s) ==
    IF inv[s].pc = "clone_api_token"
    THEN inv[s].current_dict["Attributes"]["TokenId"]
    ELSE inv[s].current_dict["Attributes"]["OtherTokenId"]

\* C24: a createSecret that clones or renews a token that has no expires_on,
\* Cloudflare answering its calls, goes on to write the AWSPENDING value: it
\* has issued a credential and raises nothing.
C24_NoExpiryRotates ==
    [][\A s \in Slots :
          (/\ Acts(s) /\ inv[s].pc \in {"clone_api_token", "renew_api_token"}
           /\ inv'[s].failure # "CallFailed"
           /\ Exists(StartsFrom(s)) /\ ~cfTokens[StartsFrom(s)].expires) =>
              /\ inv'[s].status = "running" /\ inv'[s].pc = "put_secret_value"
              /\ Len(inv'[s].calls) = 1]_vars

====
